---- MODULE Spec2Model ----
(***************************************************************************)
(* Balance ledger and game settlement of jada5platform (src/jada/server.js) *)
(* as a state machine.  The durable state is the MongoDB collections        *)
(* (users' balances, transactions, tickets); the volatile state is the set  *)
(* of request handlers in flight, each holding its own in-memory copy of    *)
(* the user document, and the setTimeout settlement callbacks.  Every       *)
(* `await` of a handler is one atomic step of the record store; what runs   *)
(* between two awaits is synchronous and belongs to the step before it.     *)
(* Mongoose's doc.save() of a modified path writes the document's own       *)
(* value ($set), so a balance write stores local +/- amount.                *)
(***************************************************************************)
EXTENDS Integers, Sequences, FiniteSets, TLC

\* ------------------------------------------------------------------ bounds
MaxRequests == 2      \* requests arriving in one run
MaxTime == 1          \* ticks of the clock in one run

\* ------------------------------------------------------------ input domains
Users == {"u1", "u2"}
Amounts == {-1, 1, 2}              \* req.body.amount (never validated)
Quantities == {-1, 1, 2}           \* req.body.quantity (never validated)
Suffixes == {1, 2}                 \* outcomes of Math.random().toString(36)
ExternalIds == {<<"ext", 1>>, <<"ext", 2>>}  \* req.body.transactionId
InitBalances == {0, 3}             \* what a user holds when the run starts

\* The Game collection (catalog, read-only for this program).
Games ==
  [g1 |-> [type |-> "wheel", price |-> 1, active |-> TRUE, durationDays |-> 1,
           prizes |-> << [position |-> 0, amount |-> 0],
                         [position |-> 1, amount |-> 1] >>],
   g2 |-> [type |-> "draw", price |-> 2, active |-> FALSE, durationDays |-> 7,
           prizes |-> << [position |-> 1, amount |-> 2] >>]]
GameIds == DOMAIN Games

VARIABLES
  balance,    \* User.balance of every user, as stored
  txns,       \* the Transaction collection
  tickets,    \* the Ticket collection
  reqs,       \* the request handlers, in order of arrival
  now         \* the clock that Date.now() and new Date() read

vars == <<balance, txns, tickets, reqs, now>>

\* ----------------------------------------------------------------- helpers
TxnIds == {t.transactionId : t \in txns}
TicketCodes == {t.ticketCode : t \in tickets}

NewTransaction_WrongOwner(u, type, status, amount, id) ==
  [userId |-> CHOOSE v \in Users : v # u, type |-> type, status |-> status,
   amount |-> amount, transactionId |-> id]

NewTransaction(u, type, status, amount, id) ==
  [userId |-> u, type |-> type, status |-> status, amount |-> amount,
   transactionId |-> id]

\* `date.setDate(date.getDate() + days)`: the date `days` calendar days on
AddDays(date, days) == [from |-> date, days |-> days]
NoDate == AddDays(-1, 0)

NewTicket(u, g, code, purchaseDate, drawDate) ==
  [userId |-> u, gameId |-> g, ticketCode |-> code, status |-> "active",
   purchaseDate |-> purchaseDate, drawDate |-> drawDate, prizeWon |-> 0]

\* A request handler: its inputs, its copy of the user document (local), where
\* it stands (pc), the response it sent (result), the settlement timer it
\* scheduled (timer), what it has written so far (applied, minted) and
\* whether a duplicate key ended it (conflict).
\* A purchase also holds the drawDate it computed and the time at which the
\* ticket it is about to save was constructed (its purchaseDate default).
NewRequest(op, u, amount, g, q, id, local) ==
  [op |-> op, user |-> u, amount |-> amount, gameId |-> g, quantity |-> q,
   tid |-> id, local |-> local, pc |-> "start", result |-> "none",
   timer |-> "none", applied |-> FALSE, minted |-> 0, position |-> -1,
   seen |-> local, arrived |-> -1, drawDate |-> NoDate, built |-> -1,
   conflict |-> FALSE]

Respond(r, res) == [r EXCEPT !.pc = "done", !.result = res]

\* An insert rejected for a duplicate key (E11000) throws like any other
\* store error: the catch answers 500.  `conflict` remembers the cause.
RespondDuplicate(r) == [Respond(r, "error") EXCEPT !.conflict = TRUE]

At(i, op, pc) ==
  /\ i \in 1..Len(reqs)
  /\ reqs[i].op = op
  /\ reqs[i].pc = pc

Put(i, r) == reqs' = [reqs EXCEPT ![i] = r]

\* The run starts with no request in flight, on collections that earlier
\* deposits have left: every user holds 0, or what one recorded deposit paid.
Init ==
  /\ balance \in [Users -> InitBalances]
  /\ txns = {NewTransaction(u, "deposit", "completed", balance[u], <<"fund", u>>) :
               u \in {v \in Users : balance[v] # 0}}
  /\ tickets = {}
  /\ reqs = << >>
  /\ now = 0


\* ------------------------------------------------------ pieces of the code
\* `user.balance < amount` / `user.balance < totalCost`
InsufficientBalance_Inverted(bal, cost) == bal > cost
InsufficientBalance(bal, cost) == bal < cost

\* `user.balance += amount` and `user.balance -= amount`
Credit(bal, amount) == bal + amount
Debit(bal, amount) == bal - amount

\* `game.price * quantity`
TotalCost_OneTicket(g, q) == Games[g].price
TotalCost(g, q) == Games[g].price * q

\* `drawDate = new Date(); drawDate.setDate(drawDate.getDate() + game.durationDays)`
DrawDate(t, g) == AddDays(t, Games[g].durationDays)

\* The unique index on transactionId / ticketCode: an insert of a key that
\* is already there is rejected (E11000) and the handler's catch answers 500.
DuplicateKey(id, keys) == id \in keys

\* status given to a new withdrawal, and the one the timer sets
WithdrawalCreatedStatus_Completed == "completed"
WithdrawalCreatedStatus == "pending"
SettledStatus == "completed"
\* status given to a new deposit / game_purchase / prize_won
RecordedStatus == "completed"

InFlight(r) == r.pc # "done"
TimerLive(r) == r.timer \in {"scheduled", "debit"}
SavePcs == {"saveUser", "saveTxn", "saveTicket"}

\* ------------------------------------------------------- POST /api/deposit
\* User.findById: the handler gets its own copy of the user document.
DepositFindUser(u, amount, id) ==
  /\ Len(reqs) < MaxRequests
  /\ reqs' = Append(reqs,
       [NewRequest("deposit", u, amount, "g1", 0, id, balance[u])
          EXCEPT !.pc = "saveUser"])
  /\ UNCHANGED <<balance, txns, tickets, now>>

\* user.balance += amount; await user.save()
DepositSaveUser(i) ==
  /\ At(i, "deposit", "saveUser")
  /\ LET r == reqs[i]
         b == Credit(r.local, r.amount)
     IN /\ balance' = [balance EXCEPT ![r.user] = b]
        /\ Put(i, [r EXCEPT !.local = b, !.applied = TRUE, !.pc = "saveTxn"])
  /\ UNCHANGED <<txns, tickets, now>>

\* await transaction.save(); res.json(...)
DepositSaveTxn(i) ==
  /\ At(i, "deposit", "saveTxn")
  /\ LET r == reqs[i]
     IN IF DuplicateKey(r.tid, TxnIds)
        THEN /\ Put(i, RespondDuplicate(r))
             /\ UNCHANGED txns
        ELSE /\ txns' = txns \cup
                  {NewTransaction(r.user, "deposit", RecordedStatus, r.amount, r.tid)}
             /\ Put(i, Respond(r, "ok"))
  /\ UNCHANGED <<balance, tickets, now>>

\* ------------------------------------------------------ POST /api/withdraw
\* User.findById, then the balance check on the copy just read.
WithdrawFindUser(u, amount) ==
  /\ Len(reqs) < MaxRequests
  /\ LET r == NewRequest("withdraw", u, amount, "g1", 0, <<"none", 0>>, balance[u])
     IN reqs' = Append(reqs,
          IF InsufficientBalance(r.local, amount)
          THEN Respond(r, "insufficient")
          ELSE [r EXCEPT !.pc = "saveTxn"])
  /\ UNCHANGED <<balance, txns, tickets, now>>

\* (the same step, had the handler debited the balance when it accepts)
WithdrawSaveTxn_DebitsNow(i, sfx) ==
  /\ At(i, "withdraw", "saveTxn")
  /\ LET r == reqs[i]
         id == <<"wd", sfx>>
     IN IF DuplicateKey(id, TxnIds)
        THEN /\ Put(i, RespondDuplicate(r))
             /\ UNCHANGED <<txns, balance>>
        ELSE /\ txns' = txns \cup
                  {NewTransaction(r.user, "withdrawal", WithdrawalCreatedStatus,
                                  r.amount, id)}
             /\ balance' = [balance EXCEPT ![r.user] = Debit(r.local, r.amount)]
             /\ Put(i, [Respond(r, "ok") EXCEPT !.tid = id, !.timer = "scheduled"])
  /\ UNCHANGED <<tickets, now>>

\* await transaction.save() of the new withdrawal; setTimeout(...); res.json
WithdrawSaveTxn(i, sfx) ==
  /\ At(i, "withdraw", "saveTxn")
  /\ LET r == reqs[i]
         id == <<"wd", sfx>>
     IN IF DuplicateKey(id, TxnIds)
        THEN /\ Put(i, RespondDuplicate(r))
             /\ UNCHANGED txns
        ELSE /\ txns' = txns \cup
                  {NewTransaction(r.user, "withdrawal", WithdrawalCreatedStatus,
                                  r.amount, id)}
             /\ Put(i, [Respond(r, "ok") EXCEPT !.tid = id, !.timer = "scheduled"])
  /\ UNCHANGED <<balance, tickets, now>>

\* The timer fires: transaction.status = 'completed'; await transaction.save()
SettleSaveTxn(i) ==
  /\ i \in 1..Len(reqs)
  /\ reqs[i].timer = "scheduled"
  /\ LET r == reqs[i]
     IN /\ txns' = {IF t.transactionId = r.tid
                    THEN [t EXCEPT !.status = SettledStatus] ELSE t : t \in txns}
        /\ Put(i, [r EXCEPT !.timer = "debit"])
  /\ UNCHANGED <<balance, tickets, now>>

\* user.balance -= amount; await user.save(), on the request's copy of the user
SettleSaveUser(i) ==
  /\ i \in 1..Len(reqs)
  /\ reqs[i].timer = "debit"
  /\ LET r == reqs[i]
         b == Debit(r.local, r.amount)
     IN /\ balance' = [balance EXCEPT ![r.user] = b]
        /\ Put(i, [r EXCEPT !.local = b, !.applied = TRUE, !.timer = "finished"])
  /\ UNCHANGED <<txns, tickets, now>>

\* A save inside the timer rejects: catch, console.error, nothing else.
SettleStoreError(i) ==
  /\ i \in 1..Len(reqs)
  /\ TimerLive(reqs[i])
  /\ Put(i, [reqs[i] EXCEPT !.timer = "errored"])
  /\ UNCHANGED <<balance, txns, tickets, now>>

\* ---------------------------------------------- POST /api/tickets/purchase
\* User.findById and Game.findById (the catalog never changes), totalCost,
\* then the balance check on the copy just read.
PurchaseFindUser(u, g, q) ==
  /\ Len(reqs) < MaxRequests
  /\ LET cost == TotalCost(g, q)
         r == [NewRequest("purchase", u, cost, g, q, <<"none", 0>>, balance[u])
                 EXCEPT !.arrived = now]
     IN reqs' = Append(reqs,
          IF InsufficientBalance(r.local, cost)
          THEN Respond(r, "insufficient")
          ELSE [r EXCEPT !.pc = "saveUser"])
  /\ UNCHANGED <<balance, txns, tickets, now>>

\* user.balance -= totalCost; await user.save()
PurchaseSaveUser(i) ==
  /\ At(i, "purchase", "saveUser")
  /\ LET r == reqs[i]
         b == Debit(r.local, r.amount)
     IN /\ balance' = [balance EXCEPT ![r.user] = b]
        /\ Put(i, [r EXCEPT !.local = b, !.applied = TRUE, !.pc = "saveTxn"])
  /\ UNCHANGED <<txns, tickets, now>>

\* await transaction.save() of the game_purchase; then drawDate = new Date()
\* plus game.durationDays, and the first ticket is constructed.  With no
\* ticket to create (quantity < 1) the loop is skipped and the response
\* follows at once.
PurchaseSaveTxn(i, sfx) ==
  /\ At(i, "purchase", "saveTxn")
  /\ LET r == reqs[i]
         id == <<"tick", sfx>>
     IN IF DuplicateKey(id, TxnIds)
        THEN /\ Put(i, RespondDuplicate(r))
             /\ UNCHANGED txns
        ELSE /\ txns' = txns \cup
                  {NewTransaction(r.user, "game_purchase", RecordedStatus,
                                  r.amount, id)}
             /\ LET r1 == [r EXCEPT !.tid = id,
                               !.drawDate = DrawDate(now, r.gameId)]
                IN Put(i, IF r.minted < r.quantity
                          THEN [r1 EXCEPT !.pc = "saveTicket", !.built = now]
                          ELSE Respond(r1, "ok"))
  /\ UNCHANGED <<balance, tickets, now>>

\* One turn of the loop: await ticket.save() of the ticket constructed with
\* a fresh ticketCode; then the next ticket is constructed, or res.json.
PurchaseSaveTicket(i, sfx) ==
  /\ At(i, "purchase", "saveTicket")
  /\ LET r == reqs[i]
         code == <<"T", sfx>>
     IN IF DuplicateKey(code, TicketCodes)
        THEN /\ Put(i, RespondDuplicate(r))
             /\ UNCHANGED <<tickets, now>>
        ELSE /\ tickets' = tickets \cup
                  {NewTicket(r.user, r.gameId, code, r.built, r.drawDate)}
             /\ Put(i, IF r.minted + 1 < r.quantity
                       THEN [r EXCEPT !.minted = r.minted + 1, !.built = now]
                       ELSE [Respond(r, "ok") EXCEPT !.minted = r.minted + 1])
  /\ UNCHANGED <<balance, txns, now>>

\* ---------------------------------------------------- POST /api/games/spin
\* User.findById, Game.findById, the draw: prizes[floor(random * length)].
SpinFindUser(u, g, idx) ==
  /\ Len(reqs) < MaxRequests
  /\ idx \in 1..Len(Games[g].prizes)
  /\ LET prize == Games[g].prizes[idx]
         r == [NewRequest("spin", u, prize.amount, g, 0, <<"none", 0>>, balance[u])
                 EXCEPT !.position = prize.position]
     IN reqs' = Append(reqs,
          IF prize.amount > 0
          THEN [r EXCEPT !.pc = "saveUser"]
          ELSE Respond(r, "ok"))
  /\ UNCHANGED <<balance, txns, tickets, now>>

\* user.balance += prize.amount; await user.save()
SpinSaveUser(i) ==
  /\ At(i, "spin", "saveUser")
  /\ LET r == reqs[i]
         b == Credit(r.local, r.amount)
     IN /\ balance' = [balance EXCEPT ![r.user] = b]
        /\ Put(i, [r EXCEPT !.local = b, !.applied = TRUE, !.pc = "saveTxn"])
  /\ UNCHANGED <<txns, tickets, now>>

\* await transaction.save() of the prize_won; res.json(...)
SpinSaveTxn(i, sfx) ==
  /\ At(i, "spin", "saveTxn")
  /\ LET r == reqs[i]
         id == <<"win", sfx>>
     IN IF DuplicateKey(id, TxnIds)
        THEN /\ Put(i, RespondDuplicate(r))
             /\ UNCHANGED txns
        ELSE /\ txns' = txns \cup
                  {NewTransaction(r.user, "prize_won", RecordedStatus, r.amount, id)}
             /\ Put(i, [Respond(r, "ok") EXCEPT !.tid = id])
  /\ UNCHANGED <<balance, tickets, now>>

\* ------------------------------------------------------------ environment
\* An awaited save of a handler rejects (the record store is unreachable):
\* the handler's catch logs it and answers 500.
RequestStoreError(i) ==
  /\ i \in 1..Len(reqs)
  /\ reqs[i].pc \in SavePcs
  /\ Put(i, Respond(reqs[i], "error"))
  /\ UNCHANGED <<balance, txns, tickets, now>>

\* Time passes.  Only the purchase handler reads the clock, so it is let
\* advance only while a purchase is in flight.
Tick ==
  /\ now < MaxTime
  /\ \E i \in 1..Len(reqs) : reqs[i].op = "purchase" /\ InFlight(reqs[i])
  /\ now' = now + 1
  /\ UNCHANGED <<balance, txns, tickets, reqs>>

\* The process stops and starts again: handlers in flight and timers not yet
\* run are gone with its memory; the collections stay.  Nothing in the
\* start-up code (mongoose.connect, app.listen) looks at the collections.
Restart ==
  /\ \E i \in 1..Len(reqs) : InFlight(reqs[i]) \/ TimerLive(reqs[i])
  /\ reqs' = [i \in 1..Len(reqs) |->
       LET r == reqs[i]
           r1 == IF InFlight(r) THEN Respond(r, "lost") ELSE r
       IN IF TimerLive(r) THEN [r1 EXCEPT !.timer = "lost"] ELSE r1]
  /\ UNCHANGED <<balance, txns, tickets, now>>

Next ==
  \/ \E u \in Users, a \in Amounts, id \in ExternalIds : DepositFindUser(u, a, id)
  \/ \E i \in 1..MaxRequests : DepositSaveUser(i)
  \/ \E i \in 1..MaxRequests : DepositSaveTxn(i)
  \/ \E u \in Users, a \in Amounts : WithdrawFindUser(u, a)
  \/ \E i \in 1..MaxRequests, s \in Suffixes : WithdrawSaveTxn(i, s)
  \/ \E i \in 1..MaxRequests : SettleSaveTxn(i)
  \/ \E i \in 1..MaxRequests : SettleSaveUser(i)
  \/ \E i \in 1..MaxRequests : SettleStoreError(i)
  \/ \E u \in Users, g \in GameIds, q \in Quantities : PurchaseFindUser(u, g, q)
  \/ \E i \in 1..MaxRequests : PurchaseSaveUser(i)
  \/ \E i \in 1..MaxRequests, s \in Suffixes : PurchaseSaveTxn(i, s)
  \/ \E i \in 1..MaxRequests, s \in Suffixes : PurchaseSaveTicket(i, s)
  \/ \E u \in Users, g \in GameIds :
       \E k \in 1..Len(Games[g].prizes) : SpinFindUser(u, g, k)
  \/ \E i \in 1..MaxRequests : SpinSaveUser(i)
  \/ \E i \in 1..MaxRequests, s \in Suffixes : SpinSaveTxn(i, s)
  \/ \E i \in 1..MaxRequests : RequestStoreError(i)
  \/ Restart
  \/ Tick

Spec == Init /\ [][Next]_vars

\* ------------------------------------------------------ reading a state
RECURSIVE SumAmounts(_)
SumAmounts(S) ==
  IF S = {} THEN 0
  ELSE LET t == CHOOSE x \in S : TRUE
       IN t.amount + SumAmounts(S \ {t})

CompletedOf(u, types) ==
  {t \in txns : t.userId = u /\ t.status = "completed" /\ t.type \in types}

LedgerBalance(u) ==
  SumAmounts(CompletedOf(u, {"deposit", "prize_won"}))
    - SumAmounts(CompletedOf(u, {"withdrawal", "game_purchase"}))

\* what u held when the run started
FundedBalance(u) ==
  SumAmounts({t \in txns : t.transactionId = <<"fund", u>>})

ReqIds == 1..Len(reqs)
RequestsOf(u) == {i \in ReqIds : reqs[i].user = u}

\* No handler of u stands between two of its writes, and no settlement of u
\* is under way or was cut short.
Quiet(u) ==
  \A i \in RequestsOf(u) :
    /\ reqs[i].pc = "done"
    /\ reqs[i].timer \in {"none", "scheduled", "finished"}

\* ------------------------------------------------------------------ claims

\* C1: for every user, in every reachable state, the stored balance is >= 0.
C1_BalanceNonNegative == \A u \in Users : balance[u] >= 0

\* C2: N concurrent debits of A each against balance B (all read B, A > 0,
\* floor(B/A) <= N): exactly floor(B/A) of them succeed, the rest fail with
\* InsufficientFunds, and the final balance is B - A*floor(B/A).
ConcurrentDebits(u, B, A) ==
  /\ Len(reqs) >= 1
  /\ A > 0
  /\ B >= 0
  /\ B \div A <= Len(reqs)
  /\ \A i \in ReqIds :
       /\ reqs[i].op = "purchase"
       /\ reqs[i].user = u
       /\ reqs[i].amount = A
       /\ reqs[i].seen = B
       /\ reqs[i].pc = "done"
       /\ reqs[i].result \in {"ok", "insufficient"}

C2_ConcurrentDebits ==
  \A u \in Users, B \in InitBalances, A \in 1..4 :
    ConcurrentDebits(u, B, A) =>
      /\ Cardinality({i \in ReqIds : reqs[i].result = "ok"}) = B \div A
      /\ balance[u] = B - A * (B \div A)

\* C3: for every user the stored balance equals the completed credits
\* (deposit, prize_won) minus the completed debits (withdrawal,
\* game_purchase) of the log.  Stated where it is weakest: only in the
\* states in which no operation of that user is half-way.
C3_BalanceEqualsLedger ==
  \A u \in Users : Quiet(u) => balance[u] = LedgerBalance(u)

\* C4: a finished PurchaseTicket (quantity >= 1), whether it answered with
\* success or with an error, has either debited the balance and created
\* exactly `quantity` tickets, or debited nothing and created none.
C4_PurchaseAtomic ==
  \A i \in ReqIds :
    LET r == reqs[i]
    IN (r.op = "purchase" /\ r.quantity >= 1 /\ r.pc = "done"
          /\ r.result \in {"ok", "insufficient", "error"})
       => \/ r.applied /\ r.minted = r.quantity
          \/ ~r.applied /\ r.minted = 0

\* C5: settlement re-validates funds: a withdrawal transaction goes from
\* `pending` to `completed` only in a step taken while the user's stored
\* balance is >= the withdrawal's amount (otherwise it must become `failed`).
C5_SettlementRevalidates ==
  [][\A t \in txns :
       (t.type = "withdrawal" /\ t.status = "pending"
          /\ [t EXCEPT !.status = "completed"] \in txns')
       => balance[t.userId] >= t.amount]_vars

\* C6: no lost update: once every request (all of amounts > 0) has answered
\* (none with an error, none cut by a restart) and every settlement has run, the balance is what
\* the user held at the start plus the successful credits minus the
\* successful debits.
Succeeded(r, ops) ==
  /\ r.op \in ops
  /\ r.result = "ok"
  /\ r.applied

RECURSIVE SumRequests(_, _)
SumRequests(I, ops) ==
  IF I = {} THEN 0
  ELSE LET i == CHOOSE x \in I : TRUE
       IN (IF Succeeded(reqs[i], ops) THEN reqs[i].amount ELSE 0)
            + SumRequests(I \ {i}, ops)

AllAnswered(u) ==
  \A i \in RequestsOf(u) :
    /\ reqs[i].pc = "done"
    /\ reqs[i].amount > 0
    /\ reqs[i].result \in {"ok", "insufficient"}
    /\ reqs[i].timer \in {"none", "finished"}

C6_NoLostUpdate ==
  \A u \in Users :
    AllAnswered(u) =>
      balance[u] = FundedBalance(u)
                     + SumRequests(RequestsOf(u), {"deposit", "spin"})
                     - SumRequests(RequestsOf(u), {"purchase", "withdraw"})

\* C7: a withdrawal transaction is created `pending` and changes status at
\* most once, to `completed` or `failed`; a deposit, game_purchase or
\* prize_won transaction is created `completed`; no transaction leaves
\* `completed` or `failed`, and none is removed or replaced.
TxnById(T, id) == CHOOSE t \in T : t.transactionId = id

CreatedStatusOk(t) ==
  IF t.type = "withdrawal" THEN t.status = "pending" ELSE t.status = "completed"

StatusStepOk(old, new) ==
  \/ new = old
  \/ /\ old.type = "withdrawal"
     /\ old.status = "pending"
     /\ new.status \in {"completed", "failed"}
     /\ new = [old EXCEPT !.status = new.status]

C7_StatusLifecycle ==
  [][/\ \A t \in txns' :
          IF t.transactionId \in TxnIds
          THEN StatusStepOk(TxnById(txns, t.transactionId), t)
          ELSE CreatedStatusOk(t)
     /\ TxnIds \subseteq {t.transactionId : t \in txns'}]_vars

\* A settled withdrawal next to a transaction recorded by a handler.
C7_Witness ==
  /\ \E t \in txns : t.type = "withdrawal" /\ t.status = "completed"
  /\ \E t \in txns : t.type = "withdrawal" /\ t.status = "pending"
  /\ \E i \in ReqIds : reqs[i].timer = "finished"

\* C8: every accepted withdrawal whose settlement timer has run to its end
\* (the process kept running) has left its transaction `completed` or
\* `failed`, also when a save inside the settlement was rejected; and a
\* withdrawal settled with no other request around leaves the transaction
\* `completed` and the balance lowered by the amount.
C8_SettlementTerminates ==
  \A i \in ReqIds :
    LET r == reqs[i]
    IN /\ (r.op = "withdraw" /\ r.amount > 0
             /\ r.timer \in {"finished", "errored"})
            => TxnById(txns, r.tid).status \in {"completed", "failed"}
       /\ (r.op = "withdraw" /\ r.amount > 0 /\ r.timer = "finished"
             /\ Len(reqs) = 1)
            => /\ TxnById(txns, r.tid).status = "completed"
               /\ balance[r.user] = r.seen - r.amount

\* C9: a withdrawal whose timer was lost in a restart is settled all the
\* same: its transaction does not stay `pending` with no settlement left
\* to run for it.
SettlementPending(id) ==
  \E j \in ReqIds : reqs[j].tid = id /\ TimerLive(reqs[j])

C9_SettlementSurvivesRestart ==
  \A i \in ReqIds :
    (reqs[i].op = "withdraw" /\ reqs[i].amount > 0 /\ reqs[i].timer = "lost")
      => \/ TxnById(txns, reqs[i].tid).status # "pending"
         \/ SettlementPending(reqs[i].tid)

\* C10: a Withdraw arriving when the stored balance is below the amount is
\* answered InsufficientFunds in the step that reads the balance, which
\* changes no collection; it schedules no settlement, creates no
\* transaction and never takes another step.
RejectedWithdraw(r) == r.op = "withdraw" /\ r.seen < r.amount

C10_InsufficientWithdraw ==
  [][\A i \in 1..Len(reqs') :
       RejectedWithdraw(reqs'[i]) =>
         /\ reqs'[i].result = "insufficient"
         /\ reqs'[i].pc = "done"
         /\ reqs'[i].timer = "none"
         /\ reqs'[i].tid = <<"none", 0>>
         /\ ~reqs'[i].applied
         /\ IF i > Len(reqs)
            THEN /\ reqs'[i].seen = balance[reqs'[i].user]
                 /\ UNCHANGED <<balance, txns, tickets>>
            ELSE reqs'[i] = reqs[i]]_vars

C10_Witness ==
  \E i \in ReqIds :
    /\ RejectedWithdraw(reqs[i])
    /\ reqs[i].result = "insufficient"
    /\ reqs[i].amount > 0
    /\ balance[reqs[i].user] > 0

\* C11: the step in which a Withdraw is accepted adds exactly one
\* transaction, a `pending` withdrawal of the request's user and amount whose
\* id is the one returned, leaves every balance as it was and leaves the
\* settlement still to run; the step that read the balance changed nothing.
AcceptedNow(i) ==
  /\ i \in ReqIds
  /\ reqs[i].op = "withdraw"
  /\ reqs[i].pc = "saveTxn"
  /\ reqs'[i].result = "ok"

C11_AcceptedWithdraw ==
  [][/\ \A i \in ReqIds :
          AcceptedNow(i) =>
            /\ txns' = txns \cup
                 {NewTransaction(reqs[i].user, "withdrawal", "pending",
                                 reqs[i].amount, reqs'[i].tid)}
            /\ reqs'[i].tid \notin TxnIds
            /\ reqs'[i].timer = "scheduled"
            /\ ~reqs'[i].applied
            /\ balance' = balance
     /\ \A i \in 1..Len(reqs') :
          (i > Len(reqs) /\ reqs'[i].op = "withdraw")
            => UNCHANGED <<balance, txns, tickets>>]_vars

\* An accepted withdrawal, answered, its settlement not yet run.
C11_Witness ==
  \E i \in ReqIds :
    /\ reqs[i].op = "withdraw"
    /\ reqs[i].result = "ok"
    /\ reqs[i].amount > 0
    /\ reqs[i].timer = "scheduled"
    /\ TxnById(txns, reqs[i].tid).status = "pending"
    /\ balance[reqs[i].user] = reqs[i].seen

\* C12: a Deposit or Withdraw with amount <= 0 and a PurchaseTicket with
\* quantity < 1 are turned down: they write no balance, record no
\* transaction, mint no ticket, schedule no settlement and do not succeed.
InvalidRequest(r) ==
  \/ r.op \in {"deposit", "withdraw"} /\ r.amount <= 0
  \/ r.op = "purchase" /\ r.quantity < 1

C12_InvalidRejected ==
  \A i \in ReqIds :
    InvalidRequest(reqs[i]) =>
      /\ ~reqs[i].applied
      /\ reqs[i].minted = 0
      /\ reqs[i].timer = "none"
      /\ reqs[i].result # "ok"

\* C13: a PurchaseTicket (quantity >= 1) on a game that is not active debits
\* nothing and mints no ticket; a SpinWheel on a game that is not active or
\* not of kind `wheel` credits nothing and records no transaction.
Ineligible(r) ==
  \/ r.op = "purchase" /\ r.quantity >= 1 /\ ~Games[r.gameId].active
  \/ r.op = "spin" /\ (~Games[r.gameId].active \/ Games[r.gameId].type # "wheel")

C13_EligibilityEnforced ==
  \A i \in ReqIds :
    Ineligible(reqs[i]) =>
      /\ ~reqs[i].applied
      /\ reqs[i].minted = 0
      /\ reqs[i].tid = <<"none", 0>>

\* C14: for every SpinWheel call: the position and amount it returns are
\* those of an entry of the game's prize list; if the amount is 0 the call
\* changes nothing and records nothing; if the amount is > 0 its credit
\* raises the stored balance by exactly the amount, and a call that has
\* credited and answered has recorded one `completed` `prize_won`
\* transaction of that amount.
DrawnEntry(r) ==
  \E k \in 1..Len(Games[r.gameId].prizes) :
    Games[r.gameId].prizes[k] = [position |-> r.position, amount |-> r.amount]

C14_SpinCreditsPrize ==
  [][\A i \in 1..Len(reqs') :
       LET r == reqs'[i]
       IN r.op = "spin" =>
            /\ DrawnEntry(r)
            /\ (i > Len(reqs)) => UNCHANGED <<balance, txns, tickets>>
            /\ (r.amount = 0) => (r.result = "ok" /\ ~r.applied
                                    /\ r.tid = <<"none", 0>>)
            /\ (i <= Len(reqs) /\ reqs[i].pc = "saveUser" /\ r.pc = "saveTxn")
                 => balance'[r.user] = balance[r.user] + r.amount
            /\ (r.amount > 0 /\ r.result = "ok") => r.applied
            /\ (r.applied /\ r.pc = "done" /\ r.result # "lost")
                 => NewTransaction(r.user, "prize_won", "completed",
                                   r.amount, r.tid) \in txns']_vars

\* C15: a PurchaseTicket of quantity >= 1 that succeeded with no other
\* request of the same user around has lowered the balance by exactly
\* price*quantity, recorded one `completed` `game_purchase` transaction of
\* that amount, and created exactly `quantity` tickets of the game, all
\* `active`, all with one drawDate: game.durationDays after a time within
\* the call, the time at which the first ticket was made.
Alone(i) == \A j \in ReqIds \ {i} : reqs[j].user # reqs[i].user

PurchasedAlone(i) ==
  /\ reqs[i].op = "purchase"
  /\ reqs[i].result = "ok"
  /\ reqs[i].quantity >= 1
  /\ Alone(i)

C15_SuccessfulPurchase ==
  \A i \in ReqIds :
    PurchasedAlone(i) =>
      LET r == reqs[i]
          g == Games[r.gameId]
          cost == g.price * r.quantity
          mine == {t \in tickets : t.userId = r.user}
      IN /\ r.seen >= cost
         /\ balance[r.user] = r.seen - cost
         /\ {t \in txns : t.userId = r.user /\ t.type = "game_purchase"}
              = {NewTransaction(r.user, "game_purchase", "completed", cost, r.tid)}
         /\ Cardinality(mine) = r.quantity
         /\ \E d \in r.arrived..now :
              /\ \A t \in mine :
                   /\ t.status = "active"
                   /\ t.gameId = r.gameId
                   /\ t.drawDate = AddDays(d, g.durationDays)
                   /\ t.purchaseDate >= d
              /\ \E t \in mine : t.purchaseDate = d

\* Two tickets bought in one call, the clock having moved between them.
C15_Witness ==
  \E i \in ReqIds :
    /\ PurchasedAlone(i)
    /\ reqs[i].quantity = 2
    /\ reqs[i].seen = 3
    /\ balance[reqs[i].user] = 1
    /\ \E t1, t2 \in tickets :
         /\ t1.userId = reqs[i].user
         /\ t2.userId = reqs[i].user
         /\ t1.purchaseDate < t2.purchaseDate
         /\ t1.drawDate = t2.drawDate

\* C16: transaction ids and ticket codes are unique in every state, and an
\* identifier that collides with a recorded one is regenerated and the write
\* retried: no operation ends in failure because of a duplicate key.
C16_UniqueIdsRetried ==
  /\ Cardinality(TxnIds) = Cardinality(txns)
  /\ Cardinality(TicketCodes) = Cardinality(tickets)
  /\ \A i \in ReqIds : ~reqs[i].conflict

\* C17: the balance is written before the event is recorded as `completed`
\* and before tickets are made: no withdrawal is `completed` in the log
\* while its debit is not applied, no deposit, purchase or prize is recorded
\* and no ticket exists while its balance write is not applied.
C17_LedgerBeforeLog ==
  \A i \in ReqIds :
    LET r == reqs[i]
    IN /\ (r.op = "withdraw" /\ r.amount > 0 /\ r.tid # <<"none", 0>>
             /\ TxnById(txns, r.tid).status = "completed") => r.applied
       /\ (r.op \in {"purchase", "spin"} /\ r.tid # <<"none", 0>>) => r.applied
       /\ (r.op = "deposit" /\ r.result = "ok") => r.applied
       /\ (r.minted > 0) => r.applied

\* C18: a Deposit (amount > 0) that ended with an error response has not
\* written the balance; in particular one whose transactionId was already
\* recorded has not raised it.
C18_FailedDepositNoCredit ==
  \A i \in ReqIds :
    (reqs[i].op = "deposit" /\ reqs[i].amount > 0 /\ reqs[i].result = "error")
      => ~reqs[i].applied

\* The settlement of withdrawal i writes the balance in this step.
SettlementDebits(i) ==
  /\ i \in ReqIds
  /\ reqs[i].timer = "debit"
  /\ reqs'[i].timer = "finished"

\* A settlement timer that has ended (finished, errored or lost) never runs
\* again, and a timer runs only for a withdrawal whose transaction was saved.
SettledOnce(i) ==
  /\ reqs[i].timer \in {"finished", "errored", "lost"}
       => reqs'[i].timer = reqs[i].timer
  /\ (reqs[i].timer = "none" /\ reqs'[i].timer # "none")
       => reqs[i].op = "withdraw" /\ reqs'[i].timer = "scheduled"

\* C19: an accepted Withdraw has at most one settlement execution, and, with
\* every request carrying a valid amount or quantity, the step that debits the
\* balance for it lowers the stored balance by exactly the transaction's amount.
C19_SettlementDebitsOnce ==
  [][\A i \in ReqIds :
       /\ SettledOnce(i)
       /\ (SettlementDebits(i) /\ \A j \in ReqIds : ~InvalidRequest(reqs[j]))
            => balance'[reqs[i].user] = balance[reqs[i].user] - reqs[i].amount]_vars

\* The requests that took a step: a new arrival or a changed record.
Stepped == {i \in 1..Len(reqs') : i > Len(reqs) \/ reqs'[i] # reqs[i]}

\* What a step of a request of user u may touch: u's balance, and records
\* owned by u.
TouchesOnly(u) ==
  /\ \A v \in Users \ {u} : balance'[v] = balance[v]
  /\ \A t \in txns' \ txns : t.userId = u
  /\ \A k \in tickets' \ tickets : k.userId = u

\* C20: every step of Deposit, Withdraw, the settlement timer, PurchaseTicket
\* or SpinWheel for user u leaves every other user's balance unchanged and
\* writes transactions and tickets only with userId = u, whatever the other
\* users' requests are doing; and the stored data changes only in such a step.
C20_UserIsolation ==
  [][/\ (balance' # balance \/ txns' # txns \/ tickets' # tickets)
          => Stepped # {}
     /\ \A i \in Stepped : TouchesOnly(reqs'[i].user)]_vars

\* Requests of both users have written a balance and recorded a transaction,
\* and one of them has minted a ticket.
C20_Witness ==
  \E i, j \in ReqIds :
    /\ reqs[i].user = "u1" /\ reqs[j].user = "u2"
    /\ reqs[i].applied /\ reqs[j].applied
    /\ reqs[i].tid # <<"none", 0>> /\ reqs[j].tid # <<"none", 0>>
    /\ reqs[i].minted > 0
    /\ \E t \in txns : t.transactionId = reqs[j].tid /\ t.userId = "u2"
    /\ \E k \in tickets : k.userId = "u1"

====
